---------------------------- MODULE Spec2Model ----------------------------
(***************************************************************************)
(* Model of matrix.py: the Wi-Fi "room mapper" that paints CSV             *)
(* observations (mac, rssi, motion) on a Braille subpixel canvas.          *)
(*                                                                         *)
(* Number representation.  Python floats are held as fixed-point integers  *)
(* in units of 1/SCALE; a product is divided by SCALE and int() rounds     *)
(* down.  Time is counted in whole seconds, so FAST_DECAY_PER_SEC ** dt is *)
(* a product of dt factors.  Angles are whole degrees.                     *)
(***************************************************************************)
EXTENDS Integers, Sequences, FiniteSets, TLC

VARIABLES
    cv,            \* Engine.cv: the BrailleCanvas object (a record of its fields)
    last_draw,     \* Engine.last_draw
    seed_counter,  \* Engine.seed_counter
    state,         \* Engine.state: mac -> per-mac record
    pc,            \* position of main(): hidden, loop, tick, finally, exit
    clock,         \* time.time(), whole seconds
    nread,         \* number of lines of sys.stdin consumed
    stdout,        \* what has been written to sys.stdout, as events
    frame,         \* the dot masks of the last rendered frame
    inkLog,        \* history: <<motion_u, drssi_u, ink added to fast>> per ingest
    call,          \* the operation performed last, with its inputs
    ret,           \* what the last operation reported
    nops           \* number of direct calls made (direct-call specifications)

vars == <<cv, last_draw, seed_counter, state, pc, clock, nread, stdout,
          frame, inkLog, call, ret, nops>>

---------------------------------------------------------------------------
(* Bounds of the model *)

\* term_dims floors the terminal at 120 x 40; the model floors it at a
\* terminal small enough to enumerate (the circle then has radius 6).
TermFloorCols == 12
TermFloorLines == 9
\* time.time() is explored up to this many seconds
MaxClock == 3
\* lines of input read before the stream ends
MaxLines == 2
\* seeds the random source is started from
NSeeds == 2
\* rng.uniform(-a, +a) is drawn from the points a*u/UniformSteps, u in -UniformSteps..UniformSteps
UniformSteps == 2
\* direct calls made in the direct-call specifications
MaxOps == 2
\* radii tried for rssi_to_radius_pix
MaxRsub == 12

---------------------------------------------------------------------------
(* Tunables, matrix.py lines 14-46.  Fractions are in units of 1/SCALE or  *)
(* in hundredths, as said at each.                                         *)

SCALE == 100 * 100

TARGET_FPS == 20
RSSI_NEAR == -30
RSSI_FAR == -90
BASE_SAMPLES == 24
SAMPLES_PER_MOTION == 10
SAMPLES_PER_DRSSI == 30
MAX_SAMPLES_PER == 600
JITTER_ARC_DEG == 22
\* 0.10, in hundredths
JITTER_R_FRAC == 10
\* 9.0; deposit_ray uses RAY_STEPS_PER_M/8.0
RAY_STEPS_PER_M == 9
\* 0.88, in units of 1/SCALE
FAST_DECAY_PER_SEC == 8800
\* 0.995, in units of 1/SCALE
SLOW_DECAY_PER_SEC == 9950
\* 0.25, in units of 1/SCALE
SLOW_GAIN == 2500
HEADER_LINES == 2
\* 0.95, in hundredths
HISTO_EQ_FRACTION == 95
\* 0.35 and 0.4, in hundredths
EMA_RSSI_ALPHA == 35
EMA_MOTION_ALPHA == 40
DRSSI_CLAMP == 8

---------------------------------------------------------------------------
(* Arithmetic *)

Max(a, b) == IF a >= b THEN a ELSE b
Min(a, b) == IF a <= b THEN a ELSE b
Abs(a) == IF a < 0 THEN -a ELSE a

\* clamp(a, lo, hi)
clamp(a, lo, hi) == IF a < lo THEN lo ELSE (IF a > hi THEN hi ELSE a)

\* int(round(n/d)) for d > 0
RoundDiv(n, d) == (2 * n + d) \div (2 * d)

\* int(n/d) for d > 0: Python's int() truncates toward zero
TruncDiv(n, d) == IF n >= 0 THEN n \div d ELSE -((-n) \div d)

\* math.cos of whole degrees, in thousandths: the first quadrant, then symmetry
CosQ == <<1000, 1000, 999, 999, 998, 996, 995, 993, 990, 988, 985, 982, 978,
          974, 970, 966, 961, 956, 951, 946, 940, 934, 927, 921, 914, 906,
          899, 891, 883, 875, 866, 857, 848, 839, 829, 819, 809, 799, 788,
          777, 766, 755, 743, 731, 719, 707, 695, 682, 669, 656, 643, 629,
          616, 602, 588, 574, 559, 545, 530, 515, 500, 485, 469, 454, 438,
          423, 407, 391, 375, 358, 342, 326, 309, 292, 276, 259, 242, 225,
          208, 191, 174, 156, 139, 122, 105, 87, 70, 52, 35, 17, 0>>

Cos1000(deg) ==
    LET d == deg % 360
    IN  IF d <= 90 THEN CosQ[d + 1]
        ELSE IF d <= 180 THEN -CosQ[180 - d + 1]
        ELSE IF d <= 270 THEN -CosQ[d - 180 + 1]
        ELSE CosQ[360 - d + 1]

Sin1000(deg) == Cos1000(deg + 270)

\* base ** n for n whole seconds, base and result in units of 1/SCALE
RECURSIVE PowFix(_, _)
PowFix(base, n) == IF n <= 0 THEN SCALE ELSE (PowFix(base, n - 1) * base) \div SCALE

\* a Python list of n zeros, indexed from 0
Zeros(n) == [i \in 0 .. n - 1 |-> 0]
ArrLen(a) == Cardinality(DOMAIN a)

\* sum of the list a
RECURSIVE SumRange(_, _, _)
SumRange(a, lo, hi) ==
    IF lo > hi THEN 0
    ELSE IF lo = hi THEN a[lo]
    ELSE LET mid == (lo + hi) \div 2
         IN  SumRange(a, lo, mid) + SumRange(a, mid + 1, hi)
SumArr(a) == SumRange(a, 0, ArrLen(a) - 1)

---------------------------------------------------------------------------
(* The random source.  random.Random(seed) is a deterministic generator;   *)
(* the model's generator is a small linear congruential one.               *)

RngNext(r) == (r * 37 + 11) % 251
\* rng.randint(-1, 1)
RandInt(r) == (r % 3) - 1
\* rng.uniform(-1, +1), as u with value u/UniformSteps
Uniform(r) == (r % (2 * UniformSteps + 1)) - UniformSteps

---------------------------------------------------------------------------
(* Projection *)

\* shutil.get_terminal_size as reported, then the floors and the margins
term_dims(sz) ==
    LET W == Max(TermFloorCols, sz[1])
        H == Max(TermFloorLines, sz[2])
        l == 1
        r == 1
        t == HEADER_LINES + 1
        b == 1
        w_chars == W - l - r
        h_chars == H - t - b
    IN  [W |-> W, H |-> H, wc |-> w_chars, hc |-> h_chars,
         ws |-> w_chars * 2, hs |-> h_chars * 4, left |-> l, top |-> t]

\* the terminal sizes shutil.get_terminal_size may report
TermSizes == {<<0, 0>>, <<TermFloorCols + 1, TermFloorLines + 1>>}

\* md5(mac) % 360 of the identifiers the model feeds, in degrees
mac_angle(mac) ==
    CASE mac = "aa:bb:cc:dd:ee:ff" -> 34
      [] mac = "11:22:33:44:55:66" -> 173
      [] OTHER -> 324

\* rssi_to_radius_pix without line 72, the clamp at RSSI_FAR
rssi_to_radius_unclamped(rssi, Rsub) ==
    LET r1 == IF rssi > RSSI_NEAR * SCALE THEN RSSI_NEAR * SCALE ELSE rssi
        tnum == RSSI_NEAR * SCALE - r1
    IN  2 * SCALE + (tnum * (Rsub - 4)) \div (RSSI_NEAR - RSSI_FAR)

\* rssi in units of 1/SCALE dBm, Rsub in subpixels; the radius in units of 1/SCALE
rssi_to_radius_pix(rssi, Rsub) ==
    LET r1 == IF rssi > RSSI_NEAR * SCALE THEN RSSI_NEAR * SCALE ELSE rssi
        r2 == IF r1 < RSSI_FAR * SCALE THEN RSSI_FAR * SCALE ELSE r1
        tnum == RSSI_NEAR * SCALE - r2
    IN  2 * SCALE + (tnum * (Rsub - 4)) \div (RSSI_NEAR - RSSI_FAR)

---------------------------------------------------------------------------
(* BrailleCanvas *)

\* BrailleCanvas.resize: the geometry of the terminal as reported now, all
\* three layers zeroed, the circle mask of the character cells rebuilt
Resize(c, sz) ==
    LET d == term_dims(sz)
        cx == d.ws \div 2
        cy == d.hs \div 2
        R == Min(cx, cy) - 4
    IN  [W |-> d.W, H |-> d.H, wc |-> d.wc, hc |-> d.hc, ws |-> d.ws,
         hs |-> d.hs, left |-> d.left, top |-> d.top,
         cx |-> cx, cy |-> cy, R |-> R,
         fast |-> Zeros(d.ws * d.hs),
         slow |-> Zeros(d.ws * d.hs),
         hit |-> Zeros(d.ws * d.hs),
         cell_mask |-> [n \in 0 .. d.wc * d.hc - 1 |->
                          LET i == n % d.wc
                              j == n \div d.wc
                              dx == i * 2 + 1 - cx
                              dy == j * 4 + 2 - cy
                          IN  dx * dx + dy * dy <= R * R],
         last_fast |-> c.last_fast, last_slow |-> c.last_slow]

\* BrailleCanvas.__init__
NewCanvas(sz, now) == Resize([last_fast |-> now, last_slow |-> now], sz)

Idx(c, x, y) == y * c.ws + x

\* _in_circle_sub with the radius one subpixel too large
InCircleLoose(c, x, y) ==
    LET dx == x - c.cx
        dy == y - c.cy
    IN  dx * dx + dy * dy <= (c.R + 1) * (c.R + 1)

InCircleSub(c, x, y) ==
    LET dx == x - c.cx
        dy == y - c.cy
    IN  dx * dx + dy * dy <= c.R * c.R

\* lines 131-136 decaying by one second's factor per call, whatever elapsed
DecayFastPerCall(c, now) ==
    LET dtf == now - c.last_fast
        f == FAST_DECAY_PER_SEC
    IN  IF dtf > 0
        THEN [c EXCEPT !.fast = [i \in DOMAIN c.fast |-> (c.fast[i] * f) \div SCALE],
                       !.hit = [i \in DOMAIN c.hit |-> (c.hit[i] * f) \div SCALE],
                       !.last_fast = now]
        ELSE c

\* decay, lines 131-136: the fast layer and the congestion counter
DecayFast(c, now) ==
    LET dtf == now - c.last_fast
        f == PowFix(FAST_DECAY_PER_SEC, dtf)
    IN  IF dtf > 0
        THEN [c EXCEPT !.fast = [i \in DOMAIN c.fast |-> (c.fast[i] * f) \div SCALE],
                       !.hit = [i \in DOMAIN c.hit |-> (c.hit[i] * f) \div SCALE],
                       !.last_fast = now]
        ELSE c

\* decay, lines 137-141: the slow layer
DecaySlow(c, now) ==
    LET dts == now - c.last_slow
        g == PowFix(SLOW_DECAY_PER_SEC, dts)
    IN  IF dts > 0
        THEN [c EXCEPT !.slow = [i \in DOMAIN c.slow |-> (c.slow[i] * g) \div SCALE],
                       !.last_slow = now]
        ELSE c

\* BrailleCanvas.decay
Decay(c, now) == DecaySlow(DecayFast(c, now), now)

\* decay during which SIGWINCH is delivered while line 134 builds its list:
\* the handler rebinds every field, then line 134 stores the list it built
\* from the old fast layer; lines 135-141 run on the new canvas
DecayInterrupted(c, now, sz) ==
    LET dtf == now - c.last_fast
        f == PowFix(FAST_DECAY_PER_SEC, dtf)
        built == [i \in DOMAIN c.fast |-> (c.fast[i] * f) \div SCALE]
        c1 == Resize(c, sz)
        c2 == [c1 EXCEPT !.fast = built,
                         !.hit = [i \in DOMAIN c1.hit |-> (c1.hit[i] * f) \div SCALE],
                         !.last_fast = now]
    IN  DecaySlow(c2, now)

\* the probe loop of splat_subpixel, lines 149-157, with n probes left;
\* examined lists, in order, the candidates whose congestion was read
RECURSIVE Probe(_, _, _, _, _, _, _, _)
Probe(c, x, y, n, rng, best_i, best_h, examined) ==
    IF n = 0
    THEN [best_i |-> best_i, best_h |-> best_h, rng |-> rng, left |-> 0,
          examined |-> examined]
    ELSE LET nx == x + RandInt(rng)
             r2 == RngNext(rng)
             ny == y + RandInt(r2)
             r3 == RngNext(r2)
         IN  IF nx < 0 \/ nx >= c.ws \/ ny < 0 \/ ny >= c.hs
             THEN Probe(c, x, y, n - 1, r3, best_i, best_h, examined)
             ELSE IF ~InCircleSub(c, nx, ny)
             THEN Probe(c, x, y, n - 1, r3, best_i, best_h, examined)
             ELSE LET ii == Idx(c, nx, ny)
                      hh == c.hit[ii]
                  IN  IF hh < best_h
                      THEN IF hh = 0
                           THEN [best_i |-> ii, best_h |-> hh, rng |-> r3,
                                 left |-> n - 1,
                                 examined |-> Append(examined, ii)]
                           ELSE Probe(c, x, y, n - 1, r3, ii, hh,
                                      Append(examined, ii))
                      ELSE Probe(c, x, y, n - 1, r3, best_i, best_h,
                                 Append(examined, ii))

\* what a call of splat_subpixel that returns at line 144 or 145 reports
SplatNothing(c, rng) ==
    [cv |-> c, rng |-> rng, err |-> FALSE, target |-> -1, probes |-> 0,
     examined |-> << >>]

\* splat_subpixel feeding the slow layer the whole ink (SLOW_GAIN dropped)
SplatSlowUnscaled(c, x, y, ink, rng) ==
    IF x < 0 \/ x >= c.ws \/ y < 0 \/ y >= c.hs THEN SplatNothing(c, rng)
    ELSE IF ~InCircleSub(c, x, y) THEN SplatNothing(c, rng)
    ELSE LET idx == Idx(c, x, y)
             p == Probe(c, x, y, 4, rng, idx, c.hit[idx], << >>)
             b == p.best_i
         IN  [cv |-> [c EXCEPT !.fast[b] = @ + ink,
                                !.slow[b] = @ + ink,
                                !.hit[b] = @ + 1],
              rng |-> p.rng, err |-> FALSE, target |-> b,
              probes |-> 4 - p.left, examined |-> p.examined]

\* BrailleCanvas.splat_subpixel.  err: line 158 raised IndexError.
SplatSubpixel(c, x, y, ink, rng) ==
    IF x < 0 \/ x >= c.ws \/ y < 0 \/ y >= c.hs THEN SplatNothing(c, rng)
    ELSE IF ~InCircleSub(c, x, y) THEN SplatNothing(c, rng)
    ELSE LET idx == Idx(c, x, y)
             p == Probe(c, x, y, 4, rng, idx, c.hit[idx], << >>)
             b == p.best_i
         IN  IF b \notin DOMAIN c.fast
             THEN [cv |-> c, rng |-> p.rng, err |-> TRUE, target |-> b,
                   probes |-> 4 - p.left, examined |-> p.examined]
             ELSE [cv |-> [c EXCEPT !.fast[b] = @ + ink,
                                    !.slow[b] = @ + (ink * SLOW_GAIN) \div SCALE,
                                    !.hit[b] = @ + 1],
                   rng |-> p.rng, err |-> FALSE, target |-> b,
                   probes |-> 4 - p.left, examined |-> p.examined]

\* the loop of deposit_ray, lines 166-176, from step s; r_pix in units of 1/SCALE
RECURSIVE RaySteps(_, _, _, _, _, _, _, _)
RaySteps(c, theta, r_pix, k, rng, start, steps, s) ==
    IF s >= steps THEN [cv |-> c, rng |-> rng, err |-> FALSE]
    ELSE LET r == start * SCALE
                    + (s * (r_pix - start * SCALE)) \div Max(1, steps - 1)
             dth == (JITTER_ARC_DEG * Uniform(rng)) \div UniformSteps
             g2 == RngNext(rng)
             rr == (r * (100 * UniformSteps + JITTER_R_FRAC * Uniform(g2)))
                      \div (100 * UniformSteps)
             g3 == RngNext(g2)
             th == theta + dth
             x == c.cx + RoundDiv(rr * Cos1000(th), SCALE * 1000)
             y == c.cy + RoundDiv(rr * Sin1000(th), SCALE * 1000)
         IN  IF 0 <= x /\ x < c.ws /\ 0 <= y /\ y < c.hs /\ InCircleSub(c, x, y)
             THEN LET sp == SplatSubpixel(c, x, y, k, g3)
                  IN  IF sp.err THEN [cv |-> sp.cv, rng |-> sp.rng, err |-> TRUE]
                      ELSE RaySteps(sp.cv, theta, r_pix, k, sp.rng, start,
                                    steps, s + 1)
             ELSE RaySteps(c, theta, r_pix, k, g3, start, steps, s + 1)

\* BrailleCanvas.deposit_ray
DepositRay(c, theta, r_pix, k, rng) ==
    LET start == (2 * r_pix) \div (10 * SCALE)
        steps == Max(1, ((r_pix - start * SCALE) * RAY_STEPS_PER_M) \div (8 * SCALE))
    IN  RaySteps(c, theta, r_pix, k, rng, start, steps, 0)

\* vals[k] of vals = sorted(m): the value with at most k entries below it
\* and more than k entries not above it
KthSmallest(m, k) ==
    LET V == {m[i] : i \in DOMAIN m}
    IN  CHOOSE v \in V :
            /\ Cardinality({i \in DOMAIN m : m[i] < v}) <= k
            /\ Cardinality({i \in DOMAIN m : m[i] <= v}) > k

\* the largest entry of m: vals[-1]
Largest(m) == CHOOSE v \in {m[i] : i \in DOMAIN m} : \A i \in DOMAIN m : m[i] <= v

\* the Braille bit of subcell (sx, sy), lines 225-232
DotBit(sx, sy) ==
    CASE sx = 0 /\ sy = 0 -> 1
      [] sx = 0 /\ sy = 1 -> 2
      [] sx = 0 /\ sy = 2 -> 4
      [] sx = 0 /\ sy = 3 -> 64
      [] sx = 1 /\ sy = 0 -> 8
      [] sx = 1 /\ sy = 1 -> 16
      [] sx = 1 /\ sy = 2 -> 32
      [] sx = 1 /\ sy = 3 -> 128

\* the subcells of one character cell, in the order of lines 216-217
SubCells == {<<sx, sy>> : sx \in 0 .. 1, sy \in 0 .. 3}

RECURSIVE SumBits(_)
SumBits(S) ==
    IF S = {} THEN 0
    ELSE LET e == CHOOSE e \in S : TRUE
         IN  DotBit(e[1], e[2]) + SumBits(S \ {e})

\* BrailleCanvas.render, as the dot mask (bits) of every character cell; a
\* masked-out cell is the blank, mask 0.  err: line 220 raised IndexError.
\* The colour escapes, the header and the border are text around the masks.
Render(c) ==
    LET n == Min(ArrLen(c.fast), ArrLen(c.slow))
        merged == [i \in 0 .. n - 1 |-> c.fast[i] + c.slow[i]]
        q_idx == clamp((HISTO_EQ_FRACTION * n) \div 100 - 1, 0, n - 1)
        q0 == KthSmallest(merged, q_idx)
        q == IF q0 <= 0 THEN Max(Largest(merged), SCALE) ELSE q0
        lit(i, j) == {e \in SubCells :
                        LET idx == Idx(c, i * 2 + e[1], j * 4 + e[2])
                        IN  merged[idx] * 100 > 12 * q}
        inRange(i, j) == \A e \in SubCells :
                            Idx(c, i * 2 + e[1], j * 4 + e[2]) \in DOMAIN merged
        cells == 0 .. c.wc * c.hc - 1
    IN  IF n = 0 THEN [err |-> FALSE, masks |-> << >>]
        ELSE IF \E m \in cells : c.cell_mask[m] /\ ~inRange(m % c.wc, m \div c.wc)
        THEN [err |-> TRUE, masks |-> << >>]
        ELSE [err |-> FALSE,
              masks |-> [m \in cells |->
                           IF c.cell_mask[m]
                           THEN SumBits(lit(m % c.wc, m \div c.wc))
                           ELSE 0]]

---------------------------------------------------------------------------
(* Engine *)

\* line 299 with a floor of ink that does not depend on motion or dRSSI/dt
InkPerBiased(motion_u, drssi_u, k) ==
    ((9 * motion_u + drssi_u + SCALE) \div 10) \div Max(1, k)

\* line 299: the ink of one micro-deposit, in units of 1/SCALE
InkPer(motion_u, drssi_u, k) == ((9 * motion_u + drssi_u) \div 10) \div Max(1, k)

\* lines 287-290: the sample count
SampleCount(motion_u, drssi_u) ==
    LET k == BASE_SAMPLES + TruncDiv(SAMPLES_PER_MOTION * motion_u, SCALE)
                          + TruncDiv(SAMPLES_PER_DRSSI * drssi_u, SCALE)
    IN  IF k > MAX_SAMPLES_PER THEN MAX_SAMPLES_PER ELSE k

\* lines 268-281: the per-mac record after this observation, and dRSSI/dt
Conditioner(st, mac, rssi, motion, now) ==
    IF mac \notin DOMAIN st
    THEN [s |-> [rssi_ema |-> rssi, motion_ema |-> motion, last_t |-> now,
                 last_rssi |-> rssi],
          d_rs |-> 0]
    ELSE LET o == st[mac]
             el == now - o.last_t
             \* d_rs = (rssi - last_rssi) / max(1e-3, elapsed)
             d == IF el >= 1 THEN TruncDiv(rssi - o.last_rssi, el)
                  ELSE (rssi - o.last_rssi) * 1000
         IN  [s |-> [rssi_ema |-> (EMA_RSSI_ALPHA * rssi
                                    + (100 - EMA_RSSI_ALPHA) * o.rssi_ema) \div 100,
                     motion_ema |-> (EMA_MOTION_ALPHA * motion
                                    + (100 - EMA_MOTION_ALPHA) * o.motion_ema) \div 100,
                     last_t |-> now, last_rssi |-> rssi],
              d_rs |-> d]

\* the loop of ingest, lines 300-303, with n micro-deposits left
RECURSIVE IngestRays(_, _, _, _, _, _)
IngestRays(c, theta, r_pix, ink_per, rng, n) ==
    IF n = 0 THEN [cv |-> c, rng |-> rng, err |-> FALSE]
    ELSE LET dth == (JITTER_ARC_DEG * Uniform(rng)) \div UniformSteps
             g2 == RngNext(rng)
             rr == (r_pix * (100 * UniformSteps + JITTER_R_FRAC * Uniform(g2)))
                      \div (100 * UniformSteps)
             g3 == RngNext(g2)
             d == DepositRay(c, theta + dth, rr, ink_per, g3)
         IN  IF d.err THEN d
             ELSE IngestRays(d.cv, theta, r_pix, ink_per, d.rng, n - 1)

\* Engine.ingest: rssi and motion in units of 1/SCALE, seed the value the
\* random source is started from.  err: an exception left ingest.
Ingest(c, st, mac, rssi, motion, now, seed) ==
    LET cd == Conditioner(st, mac, rssi, motion, now)
        st2 == [m \in DOMAIN st \cup {mac} |-> IF m = mac THEN cd.s ELSE st[m]]
        motion_u == Max(0, cd.s.motion_ema)
        drssi_u == clamp(Abs(cd.d_rs), 0, DRSSI_CLAMP * SCALE) \div DRSSI_CLAMP
        k == SampleCount(motion_u, drssi_u)
        theta == mac_angle(mac)
        r_pix == rssi_to_radius_pix(cd.s.rssi_ema, c.R)
        ink_per == InkPer(motion_u, drssi_u, k)
        d == IngestRays(c, theta, r_pix, ink_per, seed, k)
    IN  [cv |-> d.cv, state |-> st2, err |-> d.err, motion_u |-> motion_u,
         drssi_u |-> drssi_u, k |-> k, r_pix |-> r_pix, ink_per |-> ink_per]

\* line 311: is a frame due?  now - last_draw >= 1/TARGET_FPS
\* line 311 without the rate limit
DrawAlways(now, ld) == now >= ld

\* line 311: at least 1/TARGET_FPS seconds since the last frame
DrawDue(now, ld) == (now - ld) * TARGET_FPS >= 1

\* Engine.tick on canvas c already decayed: [cv, drew, err, masks]
Draw(c, now, ld) ==
    IF DrawDue(now, ld)
    THEN LET r == Render(c)
         IN  [cv |-> c, drew |-> ~r.err, err |-> r.err, masks |-> r.masks]
    ELSE [cv |-> c, drew |-> FALSE, err |-> FALSE, masks |-> << >>]

\* Engine.tick
TickOf(c, now, ld) == Draw(Decay(c, now), now, ld)

---------------------------------------------------------------------------
(* main: the input lines *)

\* str.lower of the identifiers the model feeds
Lower(tok) == IF tok = "AA:BB:CC:DD:EE:FF" THEN "aa:bb:cc:dd:ee:ff" ELSE tok

\* float(tok) made to read every token it cannot parse as 0.0
ParseFloatLenient(tok) ==
    CASE tok = "-40.0" -> [ok |-> TRUE, val |-> -40 * SCALE]
      [] tok = "-90" -> [ok |-> TRUE, val |-> -90 * SCALE]
      [] tok = "1" -> [ok |-> TRUE, val |-> SCALE]
      [] OTHER -> [ok |-> TRUE, val |-> 0]

\* float(tok): ok is FALSE where float raises ValueError; val in units of 1/SCALE
ParseFloat(tok) ==
    CASE tok = "-40.0" -> [ok |-> TRUE, val |-> -40 * SCALE]
      [] tok = "-90" -> [ok |-> TRUE, val |-> -90 * SCALE]
      [] tok = "0.0" -> [ok |-> TRUE, val |-> 0]
      [] tok = "1" -> [ok |-> TRUE, val |-> SCALE]
      [] OTHER -> [ok |-> FALSE, val |-> 0]

\* lines 321-335 on a line given as its comma-separated fields
ParseLine(line) ==
    IF line = <<"">> \/ line[1] = "cnt" THEN [kind |-> "skip"]
    ELSE IF Len(line) < 3 THEN [kind |-> "skip"]
    ELSE IF ~ParseFloat(line[2]).ok \/ ~ParseFloat(line[3]).ok
    THEN [kind |-> "skip"]
    ELSE [kind |-> "obs", mac |-> Lower(line[1]),
          rssi |-> ParseFloat(line[2]).val, motion |-> ParseFloat(line[3]).val]

\* the lines main treats as ignorable or malformed
BadLines ==
    {<<"">>, <<"cnt", "-40.0", "1">>, <<"x", "y">>,
     <<"aa:bb:cc:dd:ee:ff", "x", "0.0">>, <<"aa:bb:cc:dd:ee:ff", "-40.0", "y">>}

\* the well-formed triples
GoodLines ==
    {<<"aa:bb:cc:dd:ee:ff", "-40.0", "0.0">>,
     <<"AA:BB:CC:DD:EE:FF", "-90", "1">>,
     <<"11:22:33:44:55:66", "-40.0", "1">>}

InputLines == BadLines \cup GoodLines

Seeds == 0 .. NSeeds - 1

NoFrame == << >>

---------------------------------------------------------------------------
(* main *)

Running == {"hidden", "loop", "tick"}

\* the state when Engine() has returned at line 318: the canvas built, the
\* cursor hidden (line 251), the SIGWINCH handler installed, try not yet entered
Init ==
    /\ clock = 1
    /\ cv \in {NewCanvas(sz, 1) : sz \in TermSizes}
    /\ last_draw = 0
    /\ seed_counter = 0
    /\ state = << >>
    /\ pc = "hidden"
    /\ nread = 0
    /\ stdout = <<[ev |-> "hide", at |-> 1]>>
    /\ frame = NoFrame
    /\ inkLog = {}
    /\ call = [op |-> "init"]
    /\ ret = [op |-> "init"]
    /\ nops = 0

\* line 319: main enters the try block
EnterTry ==
    /\ pc = "hidden"
    /\ pc' = "loop"
    /\ UNCHANGED <<cv, last_draw, seed_counter, state, clock, nread, stdout,
                   frame, inkLog, call, ret, nops>>

\* lines 320-335 on a line that leads to eng.tick() alone
ReadSkip(line) ==
    /\ pc = "loop"
    /\ nread < MaxLines
    /\ ParseLine(line).kind = "skip"
    /\ pc' = "tick"
    /\ nread' = nread + 1
    /\ call' = [op |-> "skip", line |-> line]
    /\ ret' = [op |-> "skip"]
    /\ UNCHANGED <<cv, last_draw, seed_counter, state, clock, stdout, frame,
                   inkLog, nops>>

\* lines 320-336 on a well-formed line: eng.ingest(mac, rssi, motion)
ReadIngest(line, seed) ==
    /\ pc = "loop"
    /\ nread < MaxLines
    /\ ParseLine(line).kind = "obs"
    /\ \E p \in {ParseLine(line)} :
       \E r \in {Ingest(cv, state, p.mac, p.rssi, p.motion, clock, seed)} :
       \E total \in {SumArr(r.cv.fast) - SumArr(cv.fast)} :
           /\ cv' = r.cv
           /\ state' = r.state
           /\ pc' = IF r.err THEN "finally" ELSE "tick"
           /\ seed_counter' = IF r.err THEN seed_counter ELSE seed_counter + 1
           /\ inkLog' = IF r.err THEN inkLog
                        ELSE inkLog \cup {<<r.motion_u, r.drssi_u, total>>}
           /\ call' = [op |-> "ingest", line |-> line, mac |-> p.mac,
                       rssi |-> p.rssi, motion |-> p.motion,
                       first |-> p.mac \notin DOMAIN state]
           /\ ret' = [op |-> "ingest", err |-> r.err, k |-> r.k,
                      motion_u |-> r.motion_u, drssi_u |-> r.drssi_u,
                      r_pix |-> r.r_pix, ink_per |-> r.ink_per, total |-> total]
    /\ nread' = nread + 1
    /\ UNCHANGED <<last_draw, clock, stdout, frame, nops>>

\* what eng.tick() leaves, t being the outcome of Engine.tick
TickEffect(t) ==
    /\ cv' = t.cv
    /\ pc' = IF t.err THEN "finally" ELSE "loop"
    /\ stdout' = IF t.drew THEN Append(stdout, [ev |-> "frame", at |-> clock])
                 ELSE stdout
    /\ frame' = IF t.drew THEN t.masks ELSE frame
    /\ last_draw' = IF t.drew THEN clock ELSE last_draw
    /\ call' = [op |-> "tick", after |-> call.op]
    /\ ret' = [op |-> "tick", drew |-> t.drew, err |-> t.err, now |-> clock,
               ld |-> last_draw, dtf |-> clock - cv.last_fast]
    /\ UNCHANGED <<seed_counter, state, clock, nread, inkLog, nops>>

\* eng.tick(), lines 323, 327, 334 and 337
Tick ==
    /\ pc = "tick"
    /\ \E t \in {TickOf(cv, clock, last_draw)} : TickEffect(t)

\* sys.stdin ends: the for loop is left, then the finally block
Eof ==
    /\ pc = "loop"
    /\ pc' = "finally"
    /\ call' = [op |-> "eof"]
    /\ UNCHANGED <<cv, last_draw, seed_counter, state, clock, nread, stdout,
                   frame, inkLog, ret, nops>>

\* SIGINT: inside the try block it is caught at line 338 and the finally
\* block follows; before the try block, or inside the finally block before
\* line 341, it leaves main
KeyboardInterrupt ==
    /\ pc \in {"hidden", "loop", "tick", "finally"}
    /\ pc' = IF pc \in {"loop", "tick"} THEN "finally" ELSE "exit"
    /\ call' = [op |-> "sigint", at |-> pc]
    /\ UNCHANGED <<cv, last_draw, seed_counter, state, clock, nread, stdout,
                   frame, inkLog, ret, nops>>

\* lines 340-342: the terminal-restore sequence
Finally ==
    /\ pc = "finally"
    /\ stdout' = Append(stdout, [ev |-> "restore", at |-> clock])
    /\ pc' = "exit"
    /\ UNCHANGED <<cv, last_draw, seed_counter, state, clock, nread, frame,
                   inkLog, call, ret, nops>>

\* SIGWINCH between two operations of main: the handler of line 254
Sigwinch(sz) ==
    /\ pc \in Running
    /\ cv' = Resize(cv, sz)
    /\ UNCHANGED <<last_draw, seed_counter, state, pc, clock, nread, stdout,
                   frame, inkLog, call, ret, nops>>

\* time passes
ClockAdvance ==
    /\ pc \in Running
    /\ clock < MaxClock
    /\ clock' = clock + 1
    /\ UNCHANGED <<cv, last_draw, seed_counter, state, pc, nread, stdout,
                   frame, inkLog, call, ret, nops>>

Next ==
    \/ EnterTry
    \/ \E line \in InputLines : ReadSkip(line)
    \/ \E line \in InputLines, seed \in Seeds : ReadIngest(line, seed)
    \/ Tick
    \/ Eof
    \/ KeyboardInterrupt
    \/ Finally
    \/ \E sz \in TermSizes : Sigwinch(sz)
    \/ ClockAdvance

Spec == Init /\ [][Next]_vars

\* eng.tick() with SIGWINCH delivered inside decay, while line 134 runs
TickSigwinch(sz) ==
    /\ pc = "tick"
    /\ clock > cv.last_fast
    /\ \E t \in {Draw(DecayInterrupted(cv, clock, sz), clock, last_draw)} :
           TickEffect(t)

NextSig ==
    \/ Next
    \/ \E sz \in TermSizes : TickSigwinch(sz)

\* main with SIGWINCH delivered at any instruction boundary
SpecSig == Init /\ [][NextSig]_vars

---------------------------------------------------------------------------
(* The canvas and the engine called directly, as a test harness calls them *)

\* an Engine as constructed, about to be called directly
InitCalls ==
    /\ clock = 1
    /\ cv \in {NewCanvas(sz, 1) : sz \in TermSizes}
    /\ last_draw = 0
    /\ seed_counter = 0
    /\ state = << >>
    /\ pc = "calls"
    /\ nread = 0
    /\ stdout = <<[ev |-> "hide", at |-> 1]>>
    /\ frame = NoFrame
    /\ inkLog = {}
    /\ call = [op |-> "init"]
    /\ ret = [op |-> "init"]
    /\ nops = 0

\* the points splat_subpixel is called at: the centre, the rim of the
\* circle, in the grid but off the circle, and off the grid on every side
SplatPoints(c) ==
    {<<c.cx, c.cy>>, <<c.cx + c.R, c.cy>>, <<c.cx + c.R, c.cy + 1>>,
     <<c.cx + c.R + 1, c.cy>>, <<0, 0>>, <<-1, c.cy>>, <<c.ws, c.cy>>,
     <<c.cx, -1>>, <<c.cx, c.hs>>}

\* the seeds of the random source handed to splat_subpixel
SplatSeeds == 0 .. 4 * NSeeds - 1

\* cv.splat_subpixel(x, y, ink, rng)
CallSplat(x, y, ink, seed) ==
    /\ pc = "calls"
    /\ nops < MaxOps
    /\ \E sp \in {SplatSubpixel(cv, x, y, ink, seed)} :
           /\ cv' = sp.cv
           /\ ret' = [op |-> "splat", target |-> sp.target, probes |-> sp.probes,
                      examined |-> sp.examined, err |-> sp.err]
    /\ call' = [op |-> "splat", x |-> x, y |-> y, ink |-> ink, seed |-> seed]
    /\ nops' = nops + 1
    /\ UNCHANGED <<last_draw, seed_counter, state, pc, clock, nread, stdout,
                   frame, inkLog>>

\* dt seconds pass, then cv.decay(now)
CallDecay(dt) ==
    /\ pc = "calls"
    /\ nops < MaxOps
    /\ clock' = clock + dt
    /\ cv' = Decay(cv, clock + dt)
    /\ call' = [op |-> "decay", dt |-> dt]
    /\ ret' = [op |-> "decay"]
    /\ nops' = nops + 1
    /\ UNCHANGED <<last_draw, seed_counter, state, pc, nread, stdout, frame,
                   inkLog>>

\* t1 seconds pass, cv.decay(now), t2 more seconds pass, cv.decay(now);
\* ret keeps what one cv.decay(now) after t1 + t2 seconds leaves instead
CallDecayTwice(t1, t2) ==
    /\ pc = "calls"
    /\ nops < MaxOps
    /\ clock' = clock + t1 + t2
    /\ cv' = Decay(Decay(cv, clock + t1), clock + t1 + t2)
    /\ \E once \in {Decay(cv, clock + t1 + t2)} :
           ret' = [op |-> "decay2", fast |-> once.fast, slow |-> once.slow,
                   hit |-> once.hit]
    /\ call' = [op |-> "decay2", t1 |-> t1, t2 |-> t2]
    /\ nops' = nops + 1
    /\ UNCHANGED <<last_draw, seed_counter, state, pc, nread, stdout, frame,
                   inkLog>>

\* cv.resize()
CallResize(sz) ==
    /\ pc = "calls"
    /\ nops < MaxOps
    /\ cv' = Resize(cv, sz)
    /\ call' = [op |-> "resize", sz |-> sz]
    /\ ret' = [op |-> "resize"]
    /\ nops' = nops + 1
    /\ UNCHANGED <<last_draw, seed_counter, state, pc, clock, nread, stdout,
                   frame, inkLog>>

\* eng.ingest(mac, rssi, motion)
CallIngest(line, seed) ==
    /\ pc = "calls"
    /\ nops < MaxOps
    /\ \E p \in {ParseLine(line)} :
       \E r \in {Ingest(cv, state, p.mac, p.rssi, p.motion, clock, seed)} :
           /\ cv' = r.cv
           /\ state' = r.state
           /\ call' = [op |-> "ingest", line |-> line, mac |-> p.mac,
                       rssi |-> p.rssi, motion |-> p.motion,
                       first |-> p.mac \notin DOMAIN state]
           /\ ret' = [op |-> "ingest", err |-> r.err, k |-> r.k,
                      motion_u |-> r.motion_u, drssi_u |-> r.drssi_u,
                      r_pix |-> r.r_pix, ink_per |-> r.ink_per]
    /\ seed_counter' = seed_counter + 1
    /\ nops' = nops + 1
    /\ UNCHANGED <<last_draw, pc, clock, nread, stdout, frame, inkLog>>

\* the ink handed to splat_subpixel, in units of 1/SCALE
SplatInks == {264}

\* the observation handed to ingest
CallLines == {<<"11:22:33:44:55:66", "-40.0", "1">>}

\* the seconds that pass before a decay
DecayDts == 1 .. 2

NextCalls ==
    \/ \E pt \in SplatPoints(cv), ink \in SplatInks, seed \in SplatSeeds :
           CallSplat(pt[1], pt[2], ink, seed)
    \/ \E dt \in DecayDts : CallDecay(dt)
    \/ \E t1 \in DecayDts, t2 \in DecayDts : CallDecayTwice(t1, t2)
    \/ \E sz \in TermSizes : CallResize(sz)
    \/ \E line \in CallLines : CallIngest(line, 0)

SpecCanvas == InitCalls /\ [][NextCalls]_vars

---------------------------------------------------------------------------
(* rssi_to_radius_pix called on two strengths and one radius *)

\* the strengths tried: RSSI_FAR - 10 to RSSI_NEAR + 10 dBm in steps of 5
RssiInputs == {(RSSI_FAR - 10 + 5 * i) * SCALE : i \in 0 .. 16}

\* the radii tried: from the radius of the smallest canvas, which is what
\* ingest passes (line 294), upward
RsubInputs == NewCanvas(<<0, 0>>, 1).R .. MaxRsub

InitRadius ==
    /\ clock = 1
    /\ cv = NewCanvas(<<0, 0>>, 1)
    /\ last_draw = 0
    /\ seed_counter = 0
    /\ state = << >>
    /\ pc = "calls"
    /\ nread = 0
    /\ stdout = << >>
    /\ frame = NoFrame
    /\ inkLog = {}
    /\ call \in {[op |-> "radius", rssi1 |-> a, rssi2 |-> b, Rsub |-> r] :
                    a \in RssiInputs, b \in RssiInputs, r \in RsubInputs}
    /\ ret = [op |-> "init"]
    /\ nops = 0

CallRadius ==
    /\ call.op = "radius"
    /\ nops = 0
    /\ ret' = [op |-> "radius",
               r1 |-> rssi_to_radius_pix(call.rssi1, call.Rsub),
               r2 |-> rssi_to_radius_pix(call.rssi2, call.Rsub)]
    /\ nops' = 1
    /\ UNCHANGED <<cv, last_draw, seed_counter, state, pc, clock, nread,
                   stdout, frame, inkLog, call>>

SpecRadius == InitRadius /\ [][CallRadius]_vars

---------------------------------------------------------------------------
(* Claims *)

OnDisc(c, x, y) == (x - c.cx) * (x - c.cx) + (y - c.cy) * (y - c.cy) <= c.R * c.R
InGrid(c, x, y) == 0 <= x /\ x < c.ws /\ 0 <= y /\ y < c.hs
XOf(c, i) == i % c.ws
YOf(c, i) == i \div c.ws

\* a step that is a direct call of the named operation
CallStep(op) == nops' = nops + 1 /\ call'.op = op

\* the subpixels whose fast, slow or hit value differs between canvases a and b
Changed(a, b) ==
    {i \in DOMAIN a.fast : a.fast[i] /= b.fast[i] \/ a.slow[i] /= b.slow[i]
                             \/ a.hit[i] /= b.hit[i]}

C4_OffDiscZero ==
    \A i \in DOMAIN cv.fast :
        ~OnDisc(cv, XOf(cv, i), YOf(cv, i)) =>
            cv.fast[i] = 0 /\ cv.slow[i] = 0 /\ cv.hit[i] = 0

C4_SplatStep ==
    CallStep("splat") =>
        IF InGrid(cv, call'.x, call'.y) /\ OnDisc(cv, call'.x, call'.y)
        THEN \A i \in Changed(cv, cv') :
                 InGrid(cv, XOf(cv, i), YOf(cv, i)) /\ OnDisc(cv, XOf(cv, i), YOf(cv, i))
        ELSE cv' = cv

\* C4: splat_subpixel called off the grid or off the inscribed circle leaves
\* fast, slow and hit unchanged; called on the circle it changes only
\* subpixels in the grid and on the circle; and after any sequence of
\* ingest, decay, splat and resize calls every subpixel off the circle has
\* fast = 0, slow = 0 and hit = 0.
C4_NeverOutsideCircle == [](C4_OffDiscZero) /\ [][C4_SplatStep]_vars

\* C4 witness: on a canvas that already holds deposits, splat_subpixel has
\* been called at a point in the grid but off the circle
C4_Witness ==
    /\ call.op = "splat"
    /\ InGrid(cv, call.x, call.y)
    /\ ~OnDisc(cv, call.x, call.y)
    /\ \E i \in DOMAIN cv.hit : cv.hit[i] > 0 /\ cv.fast[i] > 0

\* a and b agree up to the rounding of the products: 2 units of 1/SCALE and
\* one part in a thousand
Close(a, b) == Abs(a - b) <= 2 + Max(a, b) \div 1000

\* C7 as stated: cv is the canvas after decay at t1 and again at t1 + t2,
\* ret the layers after one decay at t1 + t2 instead.  fast and slow are
\* compared up to the rounding of two products, hit exactly.
C7_Original ==
    ret.op = "decay2" =>
        /\ \A i \in DOMAIN cv.fast : Close(cv.fast[i], ret.fast[i])
        /\ \A i \in DOMAIN cv.slow : Close(cv.slow[i], ret.slow[i])
        /\ cv.hit = ret.hit

\* C7 amended: with no deposit in between, decay after t1 and again after a
\* further t2 leaves fast and slow equal, up to rounding, to what one decay
\* after t1 + t2 leaves; the congestion counter hit is rounded down at each
\* call, so the split leaves it at most what the single call leaves, and no
\* more than one less.
C7_DecaySplit ==
    ret.op = "decay2" =>
        /\ \A i \in DOMAIN cv.fast : Close(cv.fast[i], ret.fast[i])
        /\ \A i \in DOMAIN cv.slow : Close(cv.slow[i], ret.slow[i])
        /\ \A i \in DOMAIN cv.hit :
               cv.hit[i] <= ret.hit[i] /\ ret.hit[i] <= cv.hit[i] + 1

\* C7 witness: a split decay of a canvas holding ink, after which some
\* congestion counter is below what the single decay leaves
C7_Witness ==
    /\ ret.op = "decay2"
    /\ \E i \in DOMAIN cv.fast : cv.fast[i] > 0 /\ cv.slow[i] > 0
    /\ \E i \in DOMAIN cv.hit : cv.hit[i] < ret.hit[i]

C10_SplatStep ==
    (/\ CallStep("splat")
     /\ InGrid(cv, call'.x, call'.y)
     /\ OnDisc(cv, call'.x, call'.y)) =>
        LET t == ret'.target
            at == call'.y * cv.ws + call'.x
            ex == ret'.examined
        IN  /\ Changed(cv, cv') = {t}
            /\ cv'.fast[t] = cv.fast[t] + call'.ink
            /\ cv'.slow[t] = cv.slow[t] + (call'.ink * SLOW_GAIN) \div SCALE
            /\ cv'.hit[t] = cv.hit[t] + 1
            /\ Abs(XOf(cv, t) - call'.x) <= 1
            /\ Abs(YOf(cv, t) - call'.y) <= 1
            /\ cv.hit[t] <= cv.hit[at]
            /\ \A j \in 1 .. Len(ex) : cv.hit[t] <= cv.hit[ex[j]]
            /\ ret'.probes <= 4
            /\ Len(ex) <= ret'.probes
            /\ cv.hit[at] > 0 =>
                   /\ \A j \in 1 .. Len(ex) - 1 : cv.hit[ex[j]] /= 0
                   /\ (Len(ex) > 0 /\ cv.hit[ex[Len(ex)]] = 0) => t = ex[Len(ex)]

\* C10: a splat_subpixel call at a point in the grid and on the circle
\* changes exactly one subpixel, the target: fast by ink, slow by
\* ink * SLOW_GAIN, hit by 1.  The target is within 1 of the point in each
\* coordinate, its congestion before the call is at most that of the point
\* and of every candidate examined, at most 4 probes are made, and no
\* candidate is examined after one with congestion 0 has been selected.
C10_SplatFrame == [][C10_SplatStep]_vars

\* C10 witness: a splat on a congested point moved to a neighbour with
\* congestion 0 and stopped probing before the fourth probe
C10_Witness ==
    /\ call.op = "splat"
    /\ ret.target >= 0
    /\ ret.target /= call.y * cv.ws + call.x
    /\ cv.hit[ret.target] = 1
    /\ cv.hit[call.y * cv.ws + call.x] >= 1
    /\ ret.probes < 4

\* a step of main that reads one input line
ReadStep == nread' = nread + 1

\* the eng.tick() step of main; call still names the line just read
TickStep == pc = "tick" /\ call'.op = "tick"

AllZero(a) == \A i \in DOMAIN a : a[i] = 0

C1_ReadBadLine ==
    (ReadStep /\ call'.line \in BadLines) =>
        /\ call'.op = "skip"
        /\ pc' = "tick"
        /\ cv' = cv
        /\ state' = state
        /\ seed_counter' = seed_counter

C1_TickAfterBadLine ==
    (TickStep /\ call.op = "skip") =>
        /\ pc' = "loop"
        /\ ~ret'.err
        /\ state' = state
        /\ seed_counter' = seed_counter
        /\ DOMAIN cv'.fast = DOMAIN cv.fast
        /\ \A i \in DOMAIN cv.fast :
               /\ 0 <= cv'.fast[i] /\ cv'.fast[i] <= cv.fast[i]
               /\ 0 <= cv'.slow[i] /\ cv'.slow[i] <= cv.slow[i]
               /\ 0 <= cv'.hit[i] /\ cv'.hit[i] <= cv.hit[i]
        /\ (clock = cv.last_fast /\ clock = cv.last_slow) =>
               cv'.fast = cv.fast /\ cv'.slow = cv.slow /\ cv'.hit = cv.hit

\* C1 as stated: the whole processing of an ignorable or malformed line,
\* the eng.tick() it ends with included, leaves fast, slow and hit exactly
\* as they were.
C1_Original ==
    [][(TickStep /\ call.op = "skip") =>
           cv'.fast = cv.fast /\ cv'.slow = cv.slow /\ cv'.hit = cv.hit]_vars

\* C1 amended: a line that is blank, starts with "cnt", has fewer than 3
\* fields or a non-numeric strength or motion never raises out of the loop
\* and deposits nothing: reading it leaves the canvas, the entity map and
\* the seed counter unchanged, and the eng.tick() that follows only applies
\* decay(now), so no fast, slow or hit value grows, and all three are exactly
\* as before when no time has passed since the last decay.
C1_BadLineNoDeposit == [][C1_ReadBadLine /\ C1_TickAfterBadLine]_vars

\* C1 witness: a malformed line was ticked on a canvas holding ink after
\* time had passed, and the tick has lowered the ink
C1_Witness ==
    /\ call.op = "tick"
    /\ call.after = "skip"
    /\ pc = "loop"
    /\ ret.dtf > 0
    /\ cv.last_fast = clock
    /\ \E i \in DOMAIN cv.fast : cv.fast[i] > 0 /\ 4 * cv.slow[i] > cv.fast[i]

\* the ingest step of a first observation with motion 0 on an empty canvas
C2_FirstStill ==
    /\ ReadStep
    /\ call'.op = "ingest"
    /\ call'.first
    /\ call'.motion = 0
    /\ state = << >>
    /\ AllZero(cv.fast) /\ AllZero(cv.slow) /\ AllZero(cv.hit)

\* C2 as stated: the ingest leaves an in-circle subpixel with fast + slow > 0
\* and the rendered frame has a cell with a nonzero dot mask.
C2_Original ==
    [][C2_FirstStill =>
          /\ ~ret'.err
          /\ \E i \in DOMAIN cv'.fast :
                 /\ OnDisc(cv', XOf(cv', i), YOf(cv', i))
                 /\ cv'.fast[i] + cv'.slow[i] > 0
          /\ \E m \in DOMAIN Render(cv').masks : Render(cv').masks[m] /= 0]_vars

\* C2 amended: from an empty canvas and an empty entity map, one ingest of a
\* first observation with motion 0.0 followed by a render does not crash,
\* but motion_u and drssi_u are both 0, so every micro-deposit carries ink 0:
\* the splats only raise congestion counters, fast and slow stay 0 at every
\* subpixel, and every cell of the rendered frame has dot mask 0.
C2_FirstStillObservationBlank ==
    [][C2_FirstStill =>
          /\ ~ret'.err
          /\ ret'.motion_u = 0 /\ ret'.drssi_u = 0 /\ ret'.ink_per = 0
          /\ ret'.k = BASE_SAMPLES
          /\ AllZero(cv'.fast) /\ AllZero(cv'.slow)
          /\ \E i \in DOMAIN cv'.hit : cv'.hit[i] > 0
          /\ ~Render(cv').err
          /\ \A m \in DOMAIN Render(cv').masks : Render(cv').masks[m] = 0]_vars

\* C2 witness: the first line read was a first observation with motion 0;
\* its splats were counted and the canvas holds no ink
C2_Witness ==
    /\ call.op = "ingest"
    /\ call.first
    /\ call.motion = 0
    /\ nread = 1
    /\ ret.k = BASE_SAMPLES
    /\ \E i \in DOMAIN cv.hit : cv.hit[i] > 0
    /\ AllZero(cv.fast)

\* C3: whenever the layers can next be indexed, fast, slow and hit all have
\* length ws*hs.  A SIGWINCH handled while line 134 rebuilds the fast layer
\* violates it: resize installs new layers and line 134 then stores the
\* list built from the old one.
C3_LayersSized ==
    /\ ArrLen(cv.fast) = cv.ws * cv.hs
    /\ ArrLen(cv.slow) = cv.ws * cv.hs
    /\ ArrLen(cv.hit) = cv.ws * cv.hs

\* C5: the total ink one ingest adds to the fast layer is a function of
\* motion_u and drssi_u alone.  inkLog holds <<motion_u, drssi_u, total>> of
\* every ingest; deposit_ray repeats ink_per at every ray step, so the total
\* grows with the mapped radius.
C5_InkTotalIndependent ==
    \A a \in inkLog, b \in inkLog : (a[1] = b[1] /\ a[2] = b[2]) => a[3] = b[3]

\* C8: once main has been left after the cursor was hidden, the restore
\* sequence has been written exactly once; while the loop runs it has not
\* been written.  A KeyboardInterrupt between line 251 and line 319, or
\* inside the finally block before line 341, leaves main without it.
C8_RestoreOnce ==
    LET restores == {j \in 1 .. Len(stdout) : stdout[j].ev = "restore"}
    IN  /\ pc = "exit" => Cardinality(restores) = 1
        /\ pc \in Running => restores = {}

C9_TickStep ==
    TickStep =>
        /\ cv' = Decay(cv, clock)
        /\ cv'.last_fast = clock /\ cv'.last_slow = clock
        /\ IF (clock - last_draw) * TARGET_FPS >= 1
           THEN /\ stdout' = Append(stdout, [ev |-> "frame", at |-> clock])
                /\ last_draw' = clock
                /\ frame' = Render(cv').masks
           ELSE /\ stdout' = stdout
                /\ last_draw' = last_draw
                /\ frame' = frame
        /\ state' = state

C9_IngestStep ==
    (ReadStep /\ call'.op = "ingest") =>
        /\ stdout' = stdout
        /\ last_draw' = last_draw
        /\ call'.mac \in DOMAIN state'
        /\ state'[call'.mac].last_t = clock
        /\ ~ret'.err => pc' = "tick"

C9_FramesApart ==
    \A i \in 1 .. Len(stdout), j \in 1 .. Len(stdout) :
        (i < j /\ stdout[i].ev = "frame" /\ stdout[j].ev = "frame") =>
            (stdout[j].at - stdout[i].at) * TARGET_FPS >= 1

\* C9: every eng.tick() applies decay(now) first, then emits a frame, of the
\* decayed canvas, exactly when now - last_draw >= 1/TARGET_FPS, and then
\* last_draw becomes now; otherwise it writes nothing and last_draw is
\* unchanged.  Any two frames written are at least 1/TARGET_FPS apart, and
\* an observation updates the conditioner and deposits, writing nothing,
\* before the draw attempt that follows it.
C9_TickDecayThenRateLimitedDraw ==
    [](C9_FramesApart) /\ [][C9_TickStep /\ C9_IngestStep]_vars

\* C9 witness: after a frame, a tick within the same 1/TARGET_FPS window
\* followed an observation and drew nothing
C9_Witness ==
    /\ call.op = "tick"
    /\ call.after = "ingest"
    /\ ~ret.drew
    /\ ret.now = ret.ld
    /\ \E j \in 1 .. Len(stdout) : stdout[j].ev = "frame"

=============================================================================
